---- MODULE Spec2Model ----
(***************************************************************************)
(* One-shot handwritten character classifier (src/main.py):                *)
(*   _load_image_points, _modified_hausdorff_distance,                     *)
(*   _classification_run and run_experiments of OneShotClassifier.         *)
(*                                                                         *)
(* Three specifications share the module:                                  *)
(*   SpecShape  images -> point sets -> modified Hausdorff distance        *)
(*   SpecTrial  one call of _classification_run on one run folder          *)
(*   Spec       run_experiments, the loop over the run folders             *)
(*                                                                         *)
(* Numbers.  Python floats are modelled by exact rationals <<num, den>>    *)
(* (den > 0, reduced), except the square root of cdist, which is the       *)
(* integer square root at a fixed precision (Scale).  File identifiers     *)
(* are naturals; their order stands for Python's string order.             *)
(***************************************************************************)
EXTENDS Integers, Sequences, FiniteSets

VARIABLES
    \* SpecShape
    imageA, imageB,     \* decoded images: [Grid -> pixel value]
    ptsA, ptsB,         \* what _load_image_points returned for each
    dAB, dBA,           \* _modified_hausdorff_distance(A, B) and (B, A)
    spc,
    \* SpecTrial
    trial,              \* the run folder, the injected callables and ftype
    result,             \* what _classification_run returned or raised
    tpc,
    \* Spec
    nrun, run, error_rates, log, average_error, outcomes, pc

shapeVars == <<imageA, imageB, ptsA, ptsB, dAB, dBA, spc>>
trialVars == <<trial, result, tpc>>
runVars   == <<nrun, run, error_rates, log, average_error, outcomes, pc>>
vars      == <<shapeVars, trialVars, runVars>>

----------------------------------------------------------------------------
\* Bounds of the model

GridSide  == 2      \* images are GridSide x GridSide pixels
MaxPoints == 3      \* at most this many foreground pixels in an image
Scale     == 10     \* distances are computed to 1/Scale of a coordinate unit
MaxLines  == 2      \* lines of a label file; file identifiers are 1..MaxLines
MaxCost   == 1      \* the injected f_cost returns 0..MaxCost
MaxRun    == 3      \* nrun is 1..MaxRun

----------------------------------------------------------------------------
\* Arithmetic helpers

Abs(x) == IF x < 0 THEN -x ELSE x

RECURSIVE GCD(_, _)
GCD(a, b) == IF b = 0 THEN a ELSE GCD(b, a % b)

\* a rational in lowest terms (float equality is equality of these)
Rat(num, den) ==
    LET g == GCD(Abs(num), den) IN <<num \div g, den \div g>>

RatLess(x, y) == x[1] * y[2] < y[1] * x[2]

RatAdd(x, y) == Rat(x[1] * y[2] + y[1] * x[2], x[2] * y[2])

RECURSIVE Isqrt(_)
Isqrt(x) ==
    IF x < 2 THEN x
    ELSE LET s == 2 * Isqrt(x \div 4)
         IN  IF (s + 1) * (s + 1) <= x THEN s + 1 ELSE s

RECURSIVE SumSeq(_)
SumSeq(s) == IF s = <<>> THEN 0 ELSE Head(s) + SumSeq(Tail(s))

RECURSIVE MinSeq(_)
MinSeq(s) ==
    IF Len(s) = 1 THEN s[1]
    ELSE LET m == MinSeq(Tail(s)) IN IF s[1] <= m THEN s[1] ELSE m

----------------------------------------------------------------------------
\* _load_image_points

Grid == (0 .. GridSide - 1) \X (0 .. GridSide - 1)

Black == 0
White == 255

\* np.array(image, dtype=np.bool_): a pixel is True iff its value is not 0
ToBool(v) == v # 0

\* np.nonzero(~bool_array), transposed: the coordinates of the pixels that
\* are False as booleans, in row-major order
Nonzero(image) ==
    LET cell(k) == <<(k - 1) \div GridSide, (k - 1) % GridSide>>
        all     == [k \in 1 .. GridSide * GridSide |-> cell(k)]
    IN  SelectSeq(all, LAMBDA p : ~ToBool(image[p]))

\* coords - coords.mean(axis=0).  The result keeps the denominator apart:
\* point i is pts[i] / den.  With no coordinate the mean is nan (0/0) and
\* the difference is the empty [0 x 2] array, which is returned; nothing is
\* raised (exc = "none").
LoadImagePoints(image) ==
    LET coords == Nonzero(image)
        n      == Len(coords)
        sumR   == SumSeq([i \in 1 .. n |-> coords[i][1]])
        sumC   == SumSeq([i \in 1 .. n |-> coords[i][2]])
    IN  [exc |-> "none",
         den |-> n,
         pts |-> [i \in 1 .. n |->
                    <<n * coords[i][1] - sumR, n * coords[i][2] - sumC>>]]

----------------------------------------------------------------------------
\* _modified_hausdorff_distance

\* the square roots cdist can need: the root of d, in units of 1 / Scale,
\* for every squared distance d of two centred images
MaxSquare == 2 * (2 * MaxPoints * MaxPoints * (GridSide - 1))
               * (2 * MaxPoints * MaxPoints * (GridSide - 1))

Sqrt == [d \in 0 .. MaxSquare |-> Isqrt(Scale * Scale * d)]

\* cdist(itemA, itemB)[i][j], in units of 1 / (Scale * A.den * B.den)
Cdist(A, B, i, j) ==
    LET dr == B.den * A.pts[i][1] - A.den * B.pts[j][1]
        dc == B.den * A.pts[i][2] - A.den * B.pts[j][2]
    IN  Sqrt[dr * dr + dc * dc]

\* a float returned, or an exception raised, by a distance computation
Returned(v) == [exc |-> "none", val |-> v]
Raised(e)   == [exc |-> e, val |-> <<0, 1>>]

NoPoints   == [exc |-> "unset", den |-> 0, pts |-> <<>>]
NoDistance == [exc |-> "unset", val |-> <<0, 1>>]

\* Python's max(x, y): y when y > x, else x
PyMax(x, y) == IF RatLess(x, y) THEN y ELSE x

\* the directed average only: the symmetrising max is forgotten
DirectedHausdorffDistance(A, B) ==
    IF Len(A.pts) = 0 \/ Len(B.pts) = 0
    THEN Raised("ValueError")
    ELSE LET n          == Len(A.pts)
             m          == Len(B.pts)
             unit       == Scale * A.den * B.den
             min_dist_A == [i \in 1 .. n |->
                              MinSeq([j \in 1 .. m |-> Cdist(A, B, i, j)])]
         IN  Returned(Rat(SumSeq(min_dist_A), n * unit))

\* distances.min over a zero-length axis raises ValueError (numpy has no
\* identity for minimum); it happens at line 88 when B is empty and at
\* line 89 when only A is.
ModifiedHausdorffDistance(A, B) ==
    IF Len(A.pts) = 0 \/ Len(B.pts) = 0
    THEN Raised("ValueError")
    ELSE LET n          == Len(A.pts)
             m          == Len(B.pts)
             unit       == Scale * A.den * B.den
             min_dist_A == [i \in 1 .. n |->
                              MinSeq([j \in 1 .. m |-> Cdist(A, B, i, j)])]
             min_dist_B == [j \in 1 .. m |->
                              MinSeq([i \in 1 .. n |-> Cdist(A, B, i, j)])]
         IN  Returned(PyMax(Rat(SumSeq(min_dist_A), n * unit),
                            Rat(SumSeq(min_dist_B), m * unit)))

----------------------------------------------------------------------------
\* _classification_run

Ids == 1 .. MaxLines

\* sorted(s), by insertion
RECURSIVE Insert(_, _)
Insert(x, s) ==
    IF s = <<>> THEN <<x>>
    ELSE IF x <= Head(s) THEN <<x>> \o s
    ELSE <<Head(s)>> \o Insert(x, Tail(s))

RECURSIVE Sorted(_)
Sorted(s) == IF s = <<>> THEN <<>> ELSE Insert(Head(s), Sorted(Tail(s)))

Count(s, x) == Cardinality({ k \in 1 .. Len(s) : s[k] = x })

RECURSIVE Distinct(_)
Distinct(s) ==
    IF s = <<>> THEN <<>>
    ELSE LET rest == Distinct(Tail(s))
         IN  IF \E k \in 1 .. Len(rest) : rest[k] = Head(s)
             THEN rest ELSE <<Head(s)>> \o rest

\* sorted(set(s)): every identifier once
SortedDistinct(s) == Sorted(Distinct(s))

\* the order in which a list of identifiers is loaded: sorted(test_files),
\* sorted(train_answers)
LoadOrder(s) == Sorted(s)

\* zip(*pairs): as many tuples as the shortest line has tokens (none for no
\* line); tuple c holds token c of every line
ZipStar(pairs) ==
    LET k == IF pairs = <<>> THEN 0
             ELSE MinSeq([l \in 1 .. Len(pairs) |-> Len(pairs[l])])
    IN  [c \in 1 .. k |-> [l \in 1 .. Len(pairs) |-> pairs[l][c]]]

\* the injected f_load: raises on the unreadable file, else returns the image
\* of the file (named by its identifier)
LoadRaises(t, f) == t.fault.kind = "unreadable" /\ t.fault.id = f

\* the injected f_cost: raises on the image without points, else the
\* distance of the features of the two images
CostRaises(t, x, y) == t.fault.kind = "empty" /\ t.fault.id \in {x, y}

Cost(t, x, y) == Abs(t.feature[x] - t.feature[y])

\* the files a list comprehension [f_load(f) for f in order] asks of f_load:
\* up to and with the first one that raises
RECURSIVE LoadCalls(_, _)
LoadCalls(t, order) ==
    IF order = <<>> THEN <<>>
    ELSE IF LoadRaises(t, Head(order)) THEN <<Head(order)>>
    ELSE <<Head(order)>> \o LoadCalls(t, Tail(order))

\* np.argmin of a row: the position of the first occurrence of the minimum
\* (positions are counted from 1 here, from 0 in numpy)
RECURSIVE ArgMinFrom(_, _, _)
ArgMinFrom(row, k, best) ==
    IF k > Len(row) THEN best
    ELSE ArgMinFrom(row, k + 1, IF row[k] < row[best] THEN k ELSE best)

RECURSIVE ArgMinLastFrom(_, _, _)
ArgMinLastFrom(row, k, best) ==
    IF k > Len(row) THEN best
    ELSE ArgMinLastFrom(row, k + 1, IF row[k] <= row[best] THEN k ELSE best)

RECURSIVE ArgMaxFrom(_, _, _)
ArgMaxFrom(row, k, best) ==
    IF k > Len(row) THEN best
    ELSE ArgMaxFrom(row, k + 1, IF row[k] > row[best] THEN k ELSE best)

\* the last occurrence of the minimum
ArgMinLast(row) == ArgMinLastFrom(row, 2, 1)

ArgMin(row) == ArgMinFrom(row, 2, 1)

\* np.argmax of a row: the position of the first occurrence of the maximum
ArgMax(row) == ArgMaxFrom(row, 2, 1)

NoResult ==
    [exc |-> "unset", site |-> "none", rate |-> <<0, 1>>,
     test_files |-> <<>>, train_answers |-> <<>>,
     test_loads |-> <<>>, train_loads |-> <<>>, cost_calls |-> 0,
     cost_matrix |-> <<>>, predicted_indices |-> <<>>]

\* an exception leaves _classification_run: its type, and the place that
\* raised it (the cause, for the RuntimeError that wraps it)
Fail(exc, site, seen) == [seen EXCEPT !.exc = exc, !.site = site]

\* lines 125-167: parse the label file, load, fill the matrix, assign, score
Evaluate(t) ==
    LET pairs   == t.lines
        zipped  == ZipStar(pairs)
    IN
    IF Len(zipped) # 2
    THEN Fail("ValueError", "unpack", NoResult)
    ELSE
    LET test_files    == zipped[1]
        train_answers == zipped[2]
        n_test        == Len(test_files)
        n_train       == Len(train_answers)
        test_order    == LoadOrder(test_files)
        train_order   == LoadOrder(train_answers)
        test_loads    == LoadCalls(t, test_order)
        test_failed   == \E k \in 1 .. Len(test_loads) : LoadRaises(t, test_loads[k])
        train_loads   == IF test_failed THEN <<>> ELSE LoadCalls(t, train_order)
        train_failed  == \E k \in 1 .. Len(train_loads) : LoadRaises(t, train_loads[k])
        test_images   == test_loads
        train_images  == train_loads
        loaded        == [NoResult EXCEPT !.test_files = test_files,
                                          !.train_answers = train_answers,
                                          !.test_loads = test_loads,
                                          !.train_loads = train_loads]
    IN
    IF test_failed \/ train_failed
    THEN Fail("RuntimeError", "load", loaded)
    ELSE
    LET rows    == Len(test_images)
        cols    == Len(train_images)
        cell(i, j) == (i - 1) * cols + j
        raising == { cell(i, j) : <<i, j>> \in
                       { c \in (1 .. rows) \X (1 .. cols) :
                           CostRaises(t, test_images[c[1]], train_images[c[2]]) } }
        first   == IF raising = {} THEN rows * cols + 1
                   ELSE CHOOSE k \in raising : \A r \in raising : k <= r
        cost_matrix ==
            [i \in 1 .. n_test |-> [j \in 1 .. n_train |->
                IF i <= rows /\ j <= cols /\ cell(i, j) < first
                THEN Cost(t, test_images[i], train_images[j]) ELSE 0]]
        filled  == [loaded EXCEPT !.cost_matrix = cost_matrix,
                                  !.cost_calls = IF raising = {} THEN rows * cols
                                                 ELSE first]
    IN
    IF raising # {}
    THEN Fail("RuntimeError", "cost", filled)
    ELSE IF t.ftype \notin {"cost", "score"}
    THEN Fail("RuntimeError", "ftype", filled)
    ELSE
    LET predicted_indices ==
            [i \in 1 .. n_test |->
                IF t.ftype = "cost" THEN ArgMin(cost_matrix[i])
                ELSE ArgMax(cost_matrix[i])]
        sorted_answers == Sorted(train_answers)
        correct_predictions ==
            Cardinality({ i \in 1 .. n_test :
                            train_answers[i] = sorted_answers[predicted_indices[i]] })
    IN  [filled EXCEPT !.exc = "none",
                       !.predicted_indices = predicted_indices,
                       !.rate = Rat((n_test - correct_predictions) * 100, n_test)]

\* the two checks are moved into the try block
ClassificationRunAllInTry(t) ==
    IF ~t.dirExists \/ ~t.labelExists
    THEN Fail("RuntimeError", IF t.dirExists THEN "labels" ELSE "folder", NoResult)
    ELSE Evaluate(t)

ClassificationRun(t) ==
    IF ~t.dirExists
    THEN Fail("ValueError", "folder", NoResult)
    ELSE IF ~t.labelExists
    THEN Fail("FileNotFoundError", "labels", NoResult)
    ELSE Evaluate(t)

----------------------------------------------------------------------------
\* the variables of a specification that is not the one running

ShapeIdle ==
    /\ imageA = <<>> /\ imageB = <<>>
    /\ ptsA = NoPoints /\ ptsB = NoPoints
    /\ dAB = NoDistance /\ dBA = NoDistance
    /\ spc = "off"

TrialIdle == trial = <<>> /\ result = NoResult /\ tpc = "off"

RunIdle ==
    /\ nrun = 0 /\ run = 0 /\ error_rates = <<>> /\ log = <<>>
    /\ average_error = [kind |-> "unset", val |-> <<0, 1>>] /\ outcomes = <<>> /\ pc = "off"

----------------------------------------------------------------------------
\* SpecTrial: one call of _classification_run

\* the lines of a label file: no token, one token, three tokens, or a query
\* and a candidate
Lines ==
    { <<>>, <<1>>, <<1, 1, 1>> } \cup { <<q, c>> : q \in Ids, c \in Ids }

RECURSIVE SeqsUpTo(_, _)
SeqsUpTo(S, n) ==
    IF n = 0 THEN { <<>> }
    ELSE LET shorter == SeqsUpTo(S, n - 1)
         IN  shorter \cup { Append(s, x) : s \in { r \in shorter : Len(r) = n - 1 },
                                           x \in S }

\* a run folder: missing, without its label file, or with a label file
Folders ==
    { [dirExists |-> FALSE, labelExists |-> FALSE, lines |-> <<>>],
      [dirExists |-> TRUE, labelExists |-> FALSE, lines |-> <<>>] }
        \cup { [dirExists |-> TRUE, labelExists |-> TRUE, lines |-> ls] :
                    ls \in SeqsUpTo(Lines, MaxLines) }

Faults ==
    { [kind |-> "none", id |-> 0] }
        \cup { [kind |-> k, id |-> f] : k \in {"unreadable", "empty"}, f \in Ids }

Features == [Ids -> 0 .. MaxCost]

\* the callables and the polarity handed to _classification_run
Callers ==
    { [fault |-> fl, ftype |-> "cost"] : fl \in Faults }
        \cup { [fault |-> [kind |-> "none", id |-> 0], ftype |-> ft] :
                    ft \in {"score", "other"} }

TrialOf(folder, caller, feature) ==
    [dirExists |-> folder.dirExists, labelExists |-> folder.labelExists,
     lines |-> folder.lines, fault |-> caller.fault, ftype |-> caller.ftype,
     feature |-> feature]

TrialInit ==
    /\ \E folder \in Folders, caller \in Callers, feature \in Features :
            trial = TrialOf(folder, caller, feature)
    /\ result = NoResult
    /\ tpc = "call"
    /\ ShapeIdle /\ RunIdle

CallClassificationRun ==
    /\ tpc = "call"
    /\ result' = ClassificationRun(trial)
    /\ tpc' = "done"
    /\ UNCHANGED <<trial, shapeVars, runVars>>

TrialNext == CallClassificationRun

SpecTrial == TrialInit /\ [][TrialNext]_vars

----------------------------------------------------------------------------
\* Claims about _classification_run (under SpecTrial)

Returned1 == tpc = "done" /\ result.exc = "none"

\* C4: with the run folder or its label file missing, the run raises
\* ValueError, respectively FileNotFoundError, as itself (not wrapped in the
\* RuntimeError of the try block), and neither f_load nor f_cost has been
\* called.
C4_FailFast ==
    (tpc = "done" /\ ~trial.labelExists) =>
        /\ result.exc = (IF trial.dirExists THEN "FileNotFoundError" ELSE "ValueError")
        /\ result.site = (IF trial.dirExists THEN "labels" ELSE "folder")
        /\ result.test_loads = <<>> /\ result.train_loads = <<>>
        /\ result.cost_calls = 0

\* the folder is missing, the loader would have been able to load
C4_Witness ==
    /\ tpc = "done" /\ ~trial.dirExists
    /\ trial.fault.kind = "none"
    /\ result.exc = "ValueError" /\ result.site = "folder"
    /\ result.test_loads = <<>>

\* C7: in every row the selected column is the first of those that hold the
\* row's best value, the minimum for "cost" and the maximum for "score".
C7_FirstBest ==
    Returned1 =>
        \A i \in 1 .. Len(result.cost_matrix) :
            LET row == result.cost_matrix[i]
                sel == result.predicted_indices[i]
                IsBest(v) == IF trial.ftype = "cost"
                             THEN \A j \in 1 .. Len(row) : v <= row[j]
                             ELSE \A j \in 1 .. Len(row) : v >= row[j]
            IN  /\ sel \in 1 .. Len(row)
                /\ IsBest(row[sel])
                /\ \A j \in 1 .. sel - 1 : row[j] # row[sel]

\* a row of a "cost" run whose minimum stands in two columns of which not
\* all columns are equal: the lower one is selected
C7_Witness ==
    /\ Returned1 /\ trial.ftype = "cost"
    /\ \E i \in 1 .. Len(result.cost_matrix) :
          LET row == result.cost_matrix[i]
              sel == result.predicted_indices[i]
          IN  \E k \in 1 .. Len(row) : k > sel /\ row[k] = row[sel]

\* C8: for a label file that names every query once, in any line order, the
\* label that row i is judged against is the one the label file records for
\* the query of row i (the i-th query in sorted order), and a query counts as
\* correct exactly when the candidate of its selected column is its recorded
\* label.
C8_OwnLabel ==
    (Returned1 /\ \A q \in Ids : Count(result.test_files, q) <= 1) =>
        LET test_files   == result.test_files
            answers      == result.train_answers
            n            == Len(test_files)
            row_query    == Sorted(test_files)
            candidates   == Sorted(answers)
            Recorded(q, c) == \E l \in 1 .. n : test_files[l] = q /\ answers[l] = c
            correct      == { i \in 1 .. n :
                                Recorded(row_query[i],
                                         candidates[result.predicted_indices[i]]) }
        IN  /\ \A i \in 1 .. n : Recorded(row_query[i], answers[i])
            /\ result.rate = Rat((n - Cardinality(correct)) * 100, n)

\* C9 as stated: one column per distinct candidate, each candidate loaded
\* once.
C9_DistinctColumns ==
    Returned1 =>
        LET candidates == { result.train_answers[l] :
                                l \in 1 .. Len(result.train_answers) }
        IN  /\ Len(result.cost_matrix) = Len(trial.lines)
            /\ \A i \in 1 .. Len(result.cost_matrix) :
                  Len(result.cost_matrix[i]) = Cardinality(candidates)
            /\ \A c \in candidates : Count(result.train_loads, c) = 1

\* C9 as amended: the matrix has one row and one column per line of the
\* label file; a candidate that k lines record is loaded k times and holds k
\* columns, and a query that k lines name is loaded k times.
C9_ColumnPerLine ==
    Returned1 =>
        /\ Len(result.cost_matrix) = Len(trial.lines)
        /\ \A i \in 1 .. Len(result.cost_matrix) :
              Len(result.cost_matrix[i]) = Len(trial.lines)
        /\ result.cost_calls = Len(trial.lines) * Len(trial.lines)
        /\ \A c \in Ids :
              /\ Count(result.train_loads, c) =
                    Cardinality({ l \in 1 .. Len(trial.lines) : trial.lines[l][2] = c })
              /\ Count(result.test_loads, c) =
                    Cardinality({ l \in 1 .. Len(trial.lines) : trial.lines[l][1] = c })

\* two lines record the same candidate: it is loaded twice, two columns
C9_Witness ==
    /\ Returned1
    /\ \E c \in Ids :
          /\ Count(result.train_answers, c) = 2
          /\ Count(result.train_loads, c) = 2
    /\ \A i \in 1 .. Len(result.cost_matrix) : Len(result.cost_matrix[i]) = 2

\* C10: a label file with a line that has not exactly two tokens makes the
\* run fail; it is never evaluated to an error rate.
C10_RejectsBadLine ==
    (tpc = "done" /\ trial.labelExists
        /\ \E l \in 1 .. Len(trial.lines) : Len(trial.lines[l]) # 2)
    => result.exc # "none"

----------------------------------------------------------------------------
\* run_experiments

\* f"{x:.1f}": x in tenths, rounded half to even
Format1f(x) ==
    LET q == (x[1] * 10) \div x[2]
        r == (x[1] * 10) % x[2]
    IN  IF 2 * r > x[2] \/ (2 * r = x[2] /\ q % 2 = 1) THEN q + 1 ELSE q

RECURSIVE RatSum(_)
RatSum(s) == IF s = <<>> THEN <<0, 1>> ELSE RatAdd(Head(s), RatSum(Tail(s)))

NoAverage == [kind |-> "unset", val |-> <<0, 1>>]

\* the sum is divided by the number of runs asked for
MeanOverRuns(rates) ==
    IF rates = <<>> THEN [kind |-> "nan", val |-> <<0, 1>>]
    ELSE LET sum == RatSum(rates)
         IN  [kind |-> "float", val |-> Rat(sum[1], sum[2] * nrun)]

\* np.mean of a list: nan (with a RuntimeWarning, nothing raised) for the
\* empty list
NpMean(rates) ==
    IF rates = <<>> THEN [kind |-> "nan", val |-> <<0, 1>>]
    ELSE LET sum == RatSum(rates)
         IN  [kind |-> "float", val |-> Rat(sum[1], sum[2] * Len(rates))]

\* what run_experiments sees of a call: the rate returned or the exception
Seen(r) == [exc |-> r.exc, site |-> r.site, rate |-> r.rate]

\* the images of a run folder as run_experiments meets them: every file
\* holds a shape of its own
RunFeature == [f \in Ids |-> f]

\* the outcomes of _classification_run(folder, _load_image_points,
\* _modified_hausdorff_distance, "cost") over the run folders and the files
\* that are unreadable or hold no point
RunOutcomes ==
    { Seen(ClassificationRun(TrialOf(folder, [fault |-> fl, ftype |-> "cost"], RunFeature))) :
        folder \in Folders, fl \in Faults }

Printed(level, k, exc, tenths) ==
    [level |-> level, run |-> k, exc |-> exc, tenths |-> tenths]

Init ==
    /\ nrun \in 1 .. MaxRun
    /\ run = 0
    /\ error_rates = <<>>
    /\ log = <<>>
    /\ average_error = NoAverage
    /\ outcomes = <<>>
    /\ pc = "ready"
    /\ ShapeIdle /\ TrialIdle

\* lines 173-174
Start ==
    /\ pc = "ready"
    /\ log' = Append(log, Printed("HEADER", 0, "none", 0))
    /\ error_rates' = <<>>
    /\ run' = 1
    /\ pc' = "loop"
    /\ UNCHANGED <<nrun, average_error, outcomes, shapeVars, trialVars>>

\* one pass of the loop, without the except clause: the exception of a
\* failed run leaves run_experiments
RunTrialUncaught ==
    /\ pc = "loop"
    /\ run <= nrun
    /\ \E out \in RunOutcomes :
          /\ outcomes' = Append(outcomes, out)
          /\ IF out.exc = "none"
             THEN /\ error_rates' = Append(error_rates, out.rate)
                  /\ log' = Append(log, Printed("INFO", run, "none", Format1f(out.rate)))
                  /\ run' = run + 1
                  /\ pc' = "loop"
             ELSE /\ pc' = out.exc
                  /\ UNCHANGED <<error_rates, log, run>>
    /\ UNCHANGED <<nrun, average_error, shapeVars, trialVars>>

\* one pass of the loop, lines 176-188
RunTrial ==
    /\ pc = "loop"
    /\ run <= nrun
    /\ \E out \in RunOutcomes :
          /\ outcomes' = Append(outcomes, out)
          /\ IF out.exc = "none"
             THEN /\ error_rates' = Append(error_rates, out.rate)
                  /\ log' = Append(log, Printed("INFO", run, "none", Format1f(out.rate)))
             ELSE /\ log' = Append(log, Printed("ERROR", run, out.exc, 0))
                  /\ UNCHANGED error_rates
    /\ run' = run + 1
    /\ UNCHANGED <<nrun, average_error, pc, shapeVars, trialVars>>

\* lines 190-192, after the loop
Report ==
    /\ pc = "loop"
    /\ run > nrun
    /\ average_error' = NpMean(error_rates)
    /\ log' = Append(log,
            LET avg == NpMean(error_rates)
            IN  Printed("RESULT", nrun, avg.kind,
                        IF avg.kind = "float" THEN Format1f(avg.val) ELSE 0))
    /\ pc' = "done"
    /\ UNCHANGED <<nrun, run, error_rates, outcomes, shapeVars, trialVars>>

Next == Start \/ RunTrial \/ Report

Spec == Init /\ [][Next]_vars

----------------------------------------------------------------------------
\* Claims about run_experiments (under Spec)

Failed(k) == outcomes[k].exc # "none"

RECURSIVE RatesOf(_)
RatesOf(outs) ==
    IF outs = <<>> THEN <<>>
    ELSE IF Head(outs).exc = "none" THEN <<Head(outs).rate>> \o RatesOf(Tail(outs))
    ELSE RatesOf(Tail(outs))

\* the lines printed for the runs, in the order printed
RunLines == SelectSeq(log, LAMBDA e : e.level \in {"INFO", "ERROR"})

\* C1: the runs 1..nrun are each attempted once, in ascending order,
\* whatever the earlier ones did: a failed run is reported and the next one
\* is still attempted, and run_experiments ends only after run nrun.
C1_EveryTrialAttempted ==
    /\ pc \in {"ready", "loop", "done"}
    /\ Len(outcomes) = Len(RunLines)
    /\ \A k \in 1 .. Len(RunLines) :
          /\ RunLines[k].run = k
          /\ RunLines[k].level = (IF Failed(k) THEN "ERROR" ELSE "INFO")
    /\ (pc = "loop" => Len(outcomes) = run - 1)
    /\ (pc = "loop" /\ run <= nrun) => ENABLED RunTrial
    /\ (pc = "done" => Len(outcomes) = nrun)

\* a run that is not the last one failed, and the one after it was attempted
C1_Witness ==
    /\ pc = "done"
    /\ \E k \in 1 .. nrun - 1 : Failed(k) /\ ~Failed(k + 1)

\* C2: when every run failed, run_experiments ends in a failure of its own
\* (NoSuccessfulTrialsError); it takes no mean of the empty list and reports
\* no average.
C2_NoSuccessfulTrialsError ==
    (Len(outcomes) = nrun /\ \A k \in 1 .. nrun : Failed(k)) =>
        /\ pc # "done"
        /\ average_error.kind = "unset"
        /\ \A k \in 1 .. Len(log) : log[k].level # "RESULT"

\* C3: the average is the mean of the rates of the runs that succeeded and
\* of nothing else (the divisor is their number), it is computed after the
\* last run only, and every failed run is reported as failed.
C3_MeanOfSuccesses ==
    /\ average_error.kind # "unset" => (pc = "done" /\ Len(outcomes) = nrun)
    /\ pc = "done" =>
          LET rates == RatesOf(outcomes)
              sum   == RatSum(rates)
              avg   == average_error.val
          IN  /\ error_rates = rates
              /\ rates # <<>> =>
                    /\ average_error.kind = "float"
                    /\ avg[1] * sum[2] * Len(rates) = sum[1] * avg[2]
              /\ \A k \in 1 .. nrun :
                    Failed(k) =>
                        \E e \in 1 .. Len(log) :
                            log[e].level = "ERROR" /\ log[e].run = k
                                /\ log[e].exc = outcomes[k].exc
              /\ Cardinality({ e \in 1 .. Len(log) : log[e].level = "INFO" })
                    = Len(rates)

\* three runs, the second one fails: two rates, the average is their mean
C3_Witness ==
    /\ pc = "done" /\ nrun = 3
    /\ ~Failed(1) /\ Failed(2) /\ ~Failed(3)
    /\ Len(error_rates) = 2
    /\ error_rates[1] # error_rates[2]
    /\ average_error.kind = "float"

----------------------------------------------------------------------------
\* SpecShape: two image files are loaded and compared in both orders

Images ==
    { [p \in Grid |-> IF p \in fg THEN Black ELSE White] :
        fg \in { s \in SUBSET Grid : Cardinality(s) <= MaxPoints } }

Foreground(image) == { p \in Grid : image[p] = Black }

ShapeInit ==
    /\ imageA \in Images
    /\ imageB \in Images
    /\ ptsA = NoPoints /\ ptsB = NoPoints
    /\ dAB = NoDistance /\ dBA = NoDistance
    /\ spc = "images"
    /\ TrialIdle /\ RunIdle

LoadImages ==
    /\ spc = "images"
    /\ ptsA' = LoadImagePoints(imageA)
    /\ ptsB' = LoadImagePoints(imageB)
    /\ spc' = "loaded"
    /\ UNCHANGED <<imageA, imageB, dAB, dBA, trialVars, runVars>>

Measure ==
    /\ spc = "loaded"
    /\ dAB' = ModifiedHausdorffDistance(ptsA, ptsB)
    /\ dBA' = ModifiedHausdorffDistance(ptsB, ptsA)
    /\ spc' = "measured"
    /\ UNCHANGED <<imageA, imageB, ptsA, ptsB, trialVars, runVars>>

ShapeNext == LoadImages \/ Measure

SpecShape == ShapeInit /\ [][ShapeNext]_vars

----------------------------------------------------------------------------
\* C5: for nonempty point sets A and B the modified Hausdorff distance of
\* (A, B) equals that of (B, A).
C5_Symmetric ==
    (spc = "measured" /\ Foreground(imageA) # {} /\ Foreground(imageB) # {})
        => (dAB = dBA /\ dAB.exc = "none")

\* two different nonempty shapes whose directed averages differ
C5_Witness ==
    /\ spc = "measured"
    /\ Foreground(imageA) # {} /\ Foreground(imageB) # {}
    /\ DirectedHausdorffDistance(ptsA, ptsB) # DirectedHausdorffDistance(ptsB, ptsA)
    /\ dAB = dBA

\* C6: the point-set extractor fails with EmptyShapeError on an image with
\* no foreground pixel, and returns no point set for it.
C6_EmptyShapeError ==
    (spc # "images" /\ Foreground(imageA) = {}) => ptsA.exc = "EmptyShapeError"

====
